---------------------------- MODULE Spec2Model ----------------------------
(***************************************************************************)
(* A model of src/BlockChain.py: the ledger (Blockchain), its blocks and   *)
(* transactions, proof-of-work mining, block and chain validation, chain   *)
(* replacement, and the peer layer (Node) with broadcast and fork          *)
(* resolution.                                                             *)
(*                                                                         *)
(* Python objects are modelled by value.  No operation of the program      *)
(* mutates a Block or a Transaction after mine_block / create_genesis_block*)
(* has returned it, and no two ledgers ever hold the same `chain` list, so *)
(* the value of every field is what the program observes.  The identity of *)
(* the lists and of the Block objects is followed in `heap`, by the        *)
(* specification SpecHeap only, which appends to a list in place; the      *)
(* other specifications leave it as it is after construction.              *)
(***************************************************************************)
EXTENDS Integers, Sequences, FiniteSets, TLC

(***************************************************************************)
(* Bounds of the model.                                                    *)
(***************************************************************************)
\* Longest chain a ledger may grow to by mining (genesis included).
MaxChain == 3
\* Largest pending pool admitted.
MaxPool == 2
\* Number of objects alive in the system: distinct mined (non-genesis)
\* blocks, and transfers pending in a pool or held in a mined block.
MaxObjects == 3
\* Latest time a node is constructed at; the first is constructed at time 1.
MaxTime == 2
\* Number of hexadecimal digits of a digest that the model keeps.
HashLen == 2

(***************************************************************************)
(* Program constants.                                                      *)
(***************************************************************************)
faucet_allocation == 10000
block_reward == 50

\* The three nodes of the demo.
Nodes == {"P1", "P2", "P3"}

\* Difficulty each node is constructed with (Node(name, difficulty=...)).
difficulty == [n \in Nodes |-> IF n = "P3" THEN 0 ELSE 1]

\* Every address that can hold a balance.
Addresses == {"faucet", "coinbase"} \cup Nodes

\* The node whose add_transaction is called, and the arguments it is
\* called with: (sender, recipient, amount).
Clients == {"P2"}

TxInputs ==
  { <<"faucet", "P1", 30>>, <<"P1", "P2", 30>>,
    <<"coinbase", "P1", 30>>, <<"faucet", "P1", 0>>, <<"P1", "P2", -1>> }

\* The node whose ledger's valid_chain and replace_chain are called directly.
DirectCallers == {"P2"}

\* The node whose broadcast_block is also called with caller-built blocks.
BlockBuilders == {"P1"}

\* The calls of connect: P1 is the hub of the peer graph.
ConnectInputs == {pair \in Nodes \X Nodes : pair[1] = "P1" \/ pair[2] = "P1"}

VARIABLES
  chain,                 \* chain[n]: Blockchain.chain of node n
  current_transactions,  \* current_transactions[n]: the pending pool of n
  peers,                 \* peers[n]: Node.peers of n, a list of nodes
  last,                  \* the last call and its result
  heap                   \* the identity of each chain list and of its blocks

vars == <<chain, current_transactions, peers, last, heap>>

(***************************************************************************)
(* Canonical hashing.                                                      *)
(*                                                                         *)
(* A digest is modelled as a record: `hex` holds its leading HashLen       *)
(* hexadecimal digits, computed from the hashed content, and `pre` holds   *)
(* the hashed content itself, which stands for the remaining digits and    *)
(* makes the digest collision-free, as SHA-256 is taken to be.             *)
(***************************************************************************)
\* None: the value of Block.hash before mining.
None == [hex |-> <<>>, pre |-> <<>>]

\* "0" * 64, the previous_hash of a genesis block.
ZeroHash == [hex |-> [k \in 1..HashLen |-> 0], pre |-> <<>>]

RECURSIVE Pow16(_)
Pow16(k) == IF k <= 0 THEN 1 ELSE 16 * Pow16(k - 1)

AddrCode(a) ==
  CASE a = "faucet" -> 1 [] a = "coinbase" -> 2 [] a = "P1" -> 3
    [] a = "P2" -> 4 [] a = "P3" -> 5 [] OTHER -> 6

\* The k-th hexadecimal digit (most significant first) of v, HashLen digits.
HexDigits(v) ==
  [k \in 1..HashLen |-> (v \div Pow16(HashLen - k)) % 16]

HexValue(h) ==
  IF Len(h.hex) = 0 THEN 0
  ELSE LET RECURSIVE Val(_)
           Val(k) == IF k = 0 THEN 0 ELSE (Val(k - 1) * 16 + h.hex[k]) % Pow16(HashLen)
       IN Val(Len(h.hex))

\* The dataclass Transaction.
Transaction(s, r, a) == [sender |-> s, recipient |-> r, amount |-> a]

\* Transaction.to_dict
to_dict(tx) == [sender |-> tx.sender, recipient |-> tx.recipient, amount |-> tx.amount]

\* json.dumps(d, sort_keys=True) of a transaction dictionary: the values in
\* the order of the sorted keys amount, recipient, sender.
TxJson(d) == <<d.amount, d.recipient, d.sender>>

TxCode(d) == AddrCode(d.sender) * 5 + AddrCode(d.recipient) * 3 + d.amount

RECURSIVE TxsCode(_)
TxsCode(ds) ==
  IF Len(ds) = 0 THEN 0 ELSE (TxCode(Head(ds)) + 3 * TxsCode(Tail(ds))) % 4096

\* json.dumps(block_dict, sort_keys=True): the values in the order of the
\* sorted keys difficulty, index, nonce, previous_hash, timestamp,
\* transactions.
BlockJson(b) ==
  << b.difficulty, b.index, b.nonce, b.previous_hash, b.timestamp,
     [k \in 1..Len(b.transactions) |-> to_dict(b.transactions[k])] >>

\* The leading digits of the SHA-256 digest of a serialization.
Digest(data) ==
  IF Len(data) = 3
  THEN TxCode(Transaction(data[3], data[2], data[1])) % Pow16(HashLen)
  ELSE (data[1] * 13 + data[2] * 3 + data[3] * (Pow16(HashLen - 1) + 1)
        + HexValue(data[4]) * 11 + data[5] * 7 + TxsCode(data[6])) % Pow16(HashLen)

\* sha256(data)
sha256(data) == [hex |-> HexDigits(Digest(data)), pre |-> data]

\* Transaction.id
TxId(tx) == sha256(TxJson(to_dict(tx)))

\* Block.compute_hash: everything but the hash field.
compute_hash(b) == sha256(BlockJson(b))

\* str.startswith("0" * d) on a digest.
StartsWithZeros(h, d) ==
  /\ d <= Len(h.hex)
  /\ \A k \in 1..d : h.hex[k] = 0

\* The dataclass Block, as its constructor leaves it: nonce 0, hash None.
Block(i, ts, txs, prev, d) ==
  [index |-> i, timestamp |-> ts, transactions |-> txs, previous_hash |-> prev,
   nonce |-> 0, difficulty |-> d, hash |-> None]

(***************************************************************************)
(* The ledger: balances.                                                   *)
(***************************************************************************)
\* An empty balances dictionary: balances.get(a, 0) is 0 for every a.
NoBalances == [a \in Addresses |-> 0]

\* The body of the replay loops: debit a non-coinbase sender, credit the
\* recipient.
ApplyTx(bal, tx) ==
  LET debited == IF tx.sender # "coinbase"
                 THEN [bal EXCEPT ![tx.sender] = @ - tx.amount]
                 ELSE bal
  IN [debited EXCEPT ![tx.recipient] = @ + tx.amount]

RECURSIVE ApplyTxs(_, _)
ApplyTxs(bal, txs) ==
  IF Len(txs) = 0 THEN bal ELSE ApplyTxs(ApplyTx(bal, Head(txs)), Tail(txs))

\* The transactions of a list of blocks, in chain order.
RECURSIVE ChainTxs(_)
ChainTxs(c) ==
  IF Len(c) = 0 THEN <<>> ELSE Head(c).transactions \o ChainTxs(Tail(c))

\* Blockchain.get_balance on a ledger with chain c and pending pool pool.
get_balance(c, pool, address) ==
  ApplyTxs(ApplyTxs(NoBalances, ChainTxs(c)), pool)[address]

\* Blockchain.last_block
last_block(c) == c[Len(c)]

\* The Python slice s[:k].
SliceTo(s, k) ==
  LET m == IF k >= 0 THEN (IF k < Len(s) THEN k ELSE Len(s))
           ELSE (IF Len(s) + k > 0 THEN Len(s) + k ELSE 0)
  IN SubSeq(s, 1, m)

(***************************************************************************)
(* The ledger: validation.                                                 *)
(***************************************************************************)
\* The second loop of valid_block: replay the block's transactions, False
\* at the first non-coinbase sender whose running balance is short.
RECURSIVE ReplayBlock(_, _)
ReplayBlock(bal, txs) ==
  IF Len(txs) = 0 THEN TRUE
  ELSE LET tx == Head(txs)
       IN IF tx.sender # "coinbase" /\ bal[tx.sender] < tx.amount
          THEN FALSE
          ELSE ReplayBlock(ApplyTx(bal, tx), Tail(txs))

\* A linkage test that accepts a block on any predecessor.
LinkageOkUnlinked(block, prev) ==
  IF Len(prev) > 0 THEN TRUE ELSE block.index = 0

\* The linkage test of valid_block; prev is <<>> for None, <<b>> otherwise.
LinkageOk(block, prev) ==
  IF Len(prev) > 0
  THEN /\ block.previous_hash =
            (IF prev[1].hash # None THEN prev[1].hash ELSE compute_hash(prev[1]))
       /\ block.index = prev[1].index + 1
  ELSE block.index = 0

\* The proof-of-work test of valid_block; the genesis block is exempt.
ProofOk(block) ==
  \/ block.hash # None /\ StartsWithZeros(block.hash, block.difficulty)
  \/ block.index = 0

\* Blockchain.valid_block on a ledger whose chain is self_chain.
valid_block(self_chain, block, prev) ==
  /\ LinkageOk(block, prev)
  /\ ProofOk(block)
  /\ ReplayBlock(ApplyTxs(NoBalances, ChainTxs(SliceTo(self_chain, block.index))),
                 block.transactions)

\* An iteration of valid_chain that validates against the ledger's own chain.
ValidChainStepOwnChain(self_chain, candidate, i) ==
  LET prev == IF i > 1 THEN <<candidate[i - 1]>> ELSE <<>>
  IN [ret |-> valid_block(self_chain, candidate[i], prev), chain |-> self_chain]

\* An iteration of valid_chain without the finally clause.
ValidChainStepNoRestore(self_chain, candidate, i) ==
  LET prev == IF i > 1 THEN <<candidate[i - 1]>> ELSE <<>>
      during == SubSeq(candidate, 1, i - 1)
  IN [ret |-> valid_block(during, candidate[i], prev), chain |-> during]

\* One iteration of the loop of valid_chain, at position i of the candidate:
\* the ledger's chain is saved, replaced by candidate[:i-1] for the call of
\* valid_block and restored by the finally clause.  The result is the
\* verdict and the ledger's chain after the iteration.
ValidChainStep(self_chain, candidate, i) ==
  LET saved_chain == self_chain
      prev == IF i > 1 THEN <<candidate[i - 1]>> ELSE <<>>
      during == SubSeq(candidate, 1, i - 1)
  IN [ret |-> valid_block(during, candidate[i], prev), chain |-> saved_chain]

RECURSIVE ValidChainFrom(_, _, _)
ValidChainFrom(self_chain, candidate, i) ==
  IF i > Len(candidate) THEN [ret |-> TRUE, chain |-> self_chain]
  ELSE LET step == ValidChainStep(self_chain, candidate, i)
       IN IF ~step.ret THEN [ret |-> FALSE, chain |-> step.chain]
          ELSE ValidChainFrom(step.chain, candidate, i + 1)

\* Blockchain.valid_chain on a ledger whose chain is self_chain: the verdict
\* (ret) and the ledger's chain when the call returns (chain).
valid_chain(self_chain, candidate) ==
  IF Len(candidate) = 0 THEN [ret |-> FALSE, chain |-> self_chain]
  ELSE ValidChainFrom(self_chain, candidate, 1)

\* The copy replace_chain makes of a block: a new Block with new
\* Transactions, field by field.
CopyBlock(b) ==
  [index |-> b.index, timestamp |-> b.timestamp,
   transactions |-> [k \in 1..Len(b.transactions) |->
                       Transaction(b.transactions[k].sender,
                                   b.transactions[k].recipient,
                                   b.transactions[k].amount)],
   previous_hash |-> b.previous_hash, nonce |-> b.nonce,
   difficulty |-> b.difficulty, hash |-> b.hash]

\* A replace_chain that adopts any strictly longer candidate.
replace_chainUnvalidated(self_chain, pool, new_chain) ==
  IF Len(new_chain) > Len(self_chain)
  THEN [ret |-> TRUE,
        chain |-> [k \in 1..Len(new_chain) |-> CopyBlock(new_chain[k])],
        pool |-> <<>>]
  ELSE [ret |-> FALSE, chain |-> self_chain, pool |-> pool]

\* A replace_chain that adopts a valid candidate of any length.
replace_chainAnyLength(self_chain, pool, new_chain) ==
  LET v == valid_chain(self_chain, new_chain)
  IN IF v.ret
     THEN [ret |-> TRUE,
           chain |-> [k \in 1..Len(new_chain) |-> CopyBlock(new_chain[k])],
           pool |-> <<>>]
     ELSE [ret |-> FALSE, chain |-> v.chain, pool |-> pool]

\* Blockchain.replace_chain on a ledger (self_chain, pool): the returned
\* boolean and the ledger afterwards.
replace_chain(self_chain, pool, new_chain) ==
  IF Len(new_chain) > Len(self_chain)
  THEN LET v == valid_chain(self_chain, new_chain)
       IN IF v.ret
          THEN [ret |-> TRUE,
                chain |-> [k \in 1..Len(new_chain) |-> CopyBlock(new_chain[k])],
                pool |-> <<>>]
          ELSE [ret |-> FALSE, chain |-> v.chain, pool |-> pool]
  ELSE [ret |-> FALSE, chain |-> self_chain, pool |-> pool]

(***************************************************************************)
(* The ledger: mining.                                                     *)
(***************************************************************************)
\* A mine_block that stores the digest of the first nonce without testing it.
ProofOfWorkFirstNonce(block, target) ==
  [block EXCEPT !.hash = compute_hash(block)]

\* The while loop of mine_block: the first nonce, counting from the
\* block's, whose digest starts with target zeros; the hash is stored.
RECURSIVE ProofOfWork(_, _)
ProofOfWork(block, target) ==
  LET h == compute_hash(block)
  IN IF StartsWithZeros(h, target)
     THEN [block EXCEPT !.hash = h]
     ELSE ProofOfWork([block EXCEPT !.nonce = @ + 1], target)

\* A mine_block that puts the coinbase transaction after the pool.
MinedBlockCoinbaseLast(self_chain, pool, d, miner_address, ts) ==
  LET coinbase_tx == Transaction("coinbase", miner_address, block_reward)
      txs == pool \o <<coinbase_tx>>
      tip == last_block(self_chain)
  IN ProofOfWork(Block(tip.index + 1, ts, txs,
                       IF tip.hash # None THEN tip.hash ELSE ZeroHash, d), d)

\* A mine_block that mines the coinbase transaction and drops the pool.
MinedBlockCoinbaseOnly(self_chain, pool, d, miner_address, ts) ==
  LET coinbase_tx == Transaction("coinbase", miner_address, block_reward)
      tip == last_block(self_chain)
  IN ProofOfWork(Block(tip.index + 1, ts, <<coinbase_tx>>,
                       IF tip.hash # None THEN tip.hash ELSE ZeroHash, d), d)

\* The block Blockchain.mine_block builds and mines on ledger
\* (self_chain, pool) of difficulty d, at time ts.
MinedBlock(self_chain, pool, d, miner_address, ts) ==
  LET coinbase_tx == Transaction("coinbase", miner_address, block_reward)
      txs == <<coinbase_tx>> \o pool
      tip == last_block(self_chain)
  IN ProofOfWork(Block(tip.index + 1, ts, txs,
                       IF tip.hash # None THEN tip.hash ELSE ZeroHash, d), d)

\* Blockchain.create_genesis_block at time ts on a ledger of difficulty d.
GenesisBlock(d, ts) ==
  LET genesis_tx == Transaction("coinbase", "faucet", faucet_allocation)
      block == Block(0, ts, <<genesis_tx>>, ZeroHash, d)
  IN [block EXCEPT !.hash = compute_hash(block)]

(***************************************************************************)
(* Blocks a caller builds with the Block constructor, whose fields are all *)
(* the caller's choice, and hands to broadcast_block or replace_chain.     *)
(***************************************************************************)
\* The difficulty and the time a caller stamps on the blocks it builds.
CallerDifficulty == 0
CallerTime == MaxTime

\* A block on the tip of chain c left as the constructor leaves it: no
\* transactions, nonce 0, hash None.
UnhashedBlock(c) ==
  Block(last_block(c).index + 1, CallerTime, <<>>, last_block(c).hash, CallerDifficulty)

\* A block on the tip of chain c, hashed as mine_block hashes, that holds
\* one transfer of a negative amount: P2 sends -30 to P1.
NegativeTransferBlock(c) ==
  ProofOfWork(Block(last_block(c).index + 1, CallerTime,
                    <<Transaction("P2", "P1", 0 - 30)>>,
                    last_block(c).hash, CallerDifficulty),
              CallerDifficulty)

\* Block b after a caller raised the amount of its first transaction by
\* block_reward; the stored hash is the one b was mined with.
TamperedBlock(b) == [b EXCEPT !.transactions[1].amount = @ + block_reward]

\* Chain c with the hash of its first block left None.
UnhashedGenesis(c) == <<[c[1] EXCEPT !.hash = None]>> \o Tail(c)

(***************************************************************************)
(* The state after construction: p1, p2, p3 = Node("P1"), Node("P2"),      *)
(* Node("P3"), each with the genesis block its own constructor stamped.    *)
(* P1 is constructed at time 1 and P3 at time MaxTime; the clock may or may *)
(* not have advanced between two constructions.  Every block is mined      *)
(* after the last construction, at time MaxTime.                           *)
(* (Blockchain.addresses is written once and never read: not modelled.)    *)
(***************************************************************************)
\* A record of the last call: the operation, the boolean it returned (TRUE
\* when it returns none), the error it raised, a note on its arguments and
\* the block it returned, if any.
Call(op, ok, err, note, ret) ==
  [op |-> op, ok |-> ok, err |-> err, note |-> note, ret |-> ret]

NoCall == Call("init", TRUE, "", "", <<>>)

\* The identity of an object: the node whose call allocated it, the length
\* of that node's chain when the call returned (it grows with every call of
\* the node that allocates), and the position the object was allocated for
\* (0 for a chain list).  A Block stands for its Transactions too, which
\* are allocated with it.
Ref(by, gen, at) == [by |-> by, gen |-> gen, at |-> at]

\* After construction each ledger holds a list of its own, with a genesis
\* block of its own.
InitialHeap ==
  [list |-> [n \in Nodes |-> Ref(n, 1, 0)],
   obj |-> [n \in Nodes |-> <<Ref(n, 1, 1)>>]]

Init ==
  \E t2 \in 1..MaxTime :
     LET ts == [n \in Nodes |-> IF n = "P1" THEN 1 ELSE IF n = "P2" THEN t2 ELSE MaxTime]
     IN /\ chain = [n \in Nodes |-> <<GenesisBlock(difficulty[n], ts[n])>>]
        /\ current_transactions = [n \in Nodes |-> <<>>]
        /\ peers = [n \in Nodes |-> <<>>]
        /\ last = NoCall
        /\ heap = InitialHeap

\* The values current_timestamp() returns to mine_block.
Ticks == {MaxTime}

\* The mined (non-genesis) blocks held by any ledger.
MinedBlocks == UNION {{chain[n][k] : k \in 2..Len(chain[n])} : n \in Nodes}

\* The transfers (non-coinbase transactions) alive in the system: pending
\* in a pool or held in a mined block.
RECURSIVE SumOver(_, _)
SumOver(S, f) ==
  IF S = {} THEN 0 ELSE LET x == CHOOSE y \in S : TRUE IN f[x] + SumOver(S \ {x}, f)

Objects ==
  Cardinality(MinedBlocks)
  + SumOver(Nodes, [n \in Nodes |-> Len(current_transactions[n])])
  + SumOver(MinedBlocks, [b \in MinedBlocks |-> Len(b.transactions) - 1])

InSeq(x, s) == \E k \in 1..Len(s) : s[k] = x

(***************************************************************************)
(* Node.connect                                                            *)
(***************************************************************************)
\* A connect that registers the peer on the caller's side only.
ConnectedOneWay(ps, self, other) ==
  IF other = self THEN ps
  ELSE IF ~InSeq(other, ps[self])
       THEN [ps EXCEPT ![self] = Append(@, other)] ELSE ps

\* The peer lists after self.connect(other).
Connected(ps, self, other) ==
  IF other = self THEN ps
  ELSE LET p1 == IF ~InSeq(other, ps[self])
                 THEN [ps EXCEPT ![self] = Append(@, other)] ELSE ps
       IN IF ~InSeq(self, p1[other])
          THEN [p1 EXCEPT ![other] = Append(@, self)] ELSE p1

Connect(self, other) ==
  /\ peers' = Connected(peers, self, other)
  /\ last' = Call("connect", TRUE, "", "", <<>>)
  /\ UNCHANGED <<chain, current_transactions, heap>>

(***************************************************************************)
(* Blockchain.add_transaction (Node.new_tx)                                *)
(***************************************************************************)
\* An admission test that lets an amount of zero through.
AddErrorZeroAllowed(c, pool, sender, amount) ==
  IF amount < 0 THEN "InvalidAmount"
  ELSE IF sender = "coinbase" THEN "ReservedSender"
  ELSE IF get_balance(c, pool, sender) < amount THEN "InsufficientBalance"
  ELSE ""

\* An admission test on the balance of the chain alone, without the pool.
AddErrorChainOnly(c, pool, sender, amount) ==
  IF amount <= 0 THEN "InvalidAmount"
  ELSE IF sender = "coinbase" THEN "ReservedSender"
  ELSE IF get_balance(c, <<>>, sender) < amount THEN "InsufficientBalance"
  ELSE ""

\* The error add_transaction raises, "" when it raises none.
AddError(c, pool, sender, amount) ==
  IF amount <= 0 THEN "InvalidAmount"
  ELSE IF sender = "coinbase" THEN "ReservedSender"
  ELSE IF get_balance(c, pool, sender) < amount THEN "InsufficientBalance"
  ELSE ""

AddTransaction(n, sender, recipient, amount) ==
  LET err == AddError(chain[n], current_transactions[n], sender, amount)
      tx == Transaction(sender, recipient, amount)
  IN /\ err = "" => Len(current_transactions[n]) < MaxPool /\ Objects < MaxObjects
     /\ current_transactions' =
          IF err = "" THEN [current_transactions EXCEPT ![n] = Append(@, tx)]
          ELSE current_transactions
     /\ last' = Call("add_transaction", err = "", err, "",
                     IF err = "" THEN <<TxId(tx)>> ELSE <<>>)
     /\ UNCHANGED <<chain, peers, heap>>

(***************************************************************************)
(* Blockchain.mine_block                                                   *)
(***************************************************************************)
CanMine(n) ==
  /\ Len(chain[n]) < MaxChain
  /\ Objects < MaxObjects

MineBlock(n, miner_address, ts) ==
  LET block == MinedBlock(chain[n], current_transactions[n], difficulty[n],
                          miner_address, ts)
  IN /\ CanMine(n)
     /\ chain' = [chain EXCEPT ![n] = Append(@, block)]
     /\ current_transactions' = [current_transactions EXCEPT ![n] = <<>>]
     /\ last' = Call("mine_block", TRUE, "", "", <<block>>)
     /\ UNCHANGED <<peers, heap>>

(***************************************************************************)
(* Node.broadcast_block                                                    *)
(***************************************************************************)
\* A broadcast that stops at the first peer that rejects the block.
RECURSIVE BroadcastUntilRejected(_, _, _, _)
BroadcastUntilRejected(ledgers, ps, k, block) ==
  IF k > Len(ps) THEN ledgers
  ELSE LET p == ps[k]
           accepted == valid_block(ledgers.chain[p], block, <<last_block(ledgers.chain[p])>>)
       IN IF accepted
          THEN BroadcastUntilRejected(
                 [chain |-> [ledgers.chain EXCEPT ![p] = Append(@, block)],
                  pool |-> [ledgers.pool EXCEPT ![p] = <<>>]], ps, k + 1, block)
          ELSE ledgers

\* The loop of broadcast_block over self.peers[k..]: each peer whose ledger
\* finds the block valid on its tip appends it and clears its pool.
RECURSIVE Broadcast(_, _, _, _)
Broadcast(ledgers, ps, k, block) ==
  IF k > Len(ps) THEN ledgers
  ELSE LET p == ps[k]
           accepted == valid_block(ledgers.chain[p], block, <<last_block(ledgers.chain[p])>>)
       IN Broadcast(IF accepted
                    THEN [chain |-> [ledgers.chain EXCEPT ![p] = Append(@, block)],
                          pool |-> [ledgers.pool EXCEPT ![p] = <<>>]]
                    ELSE ledgers,
                    ps, k + 1, block)

\* How the peers ps received a broadcast that took the chains from before
\* to after: "all" appended the block, "some" did, or "none".
Reception(before, after, ps) ==
  LET grown == {k \in 1..Len(ps) : after[ps[k]] # before[ps[k]]}
  IN IF grown = {} THEN "none"
     ELSE IF grown = 1..Len(ps) THEN "all" ELSE "some"

\* The blocks broadcast_block of node n is called with: the mined blocks of
\* its chain and, on the nodes of BlockBuilders, the blocks a caller builds
\* on its tip and its mined tip altered by a caller.
BroadcastInputs(n) ==
  {chain[n][k] : k \in 2..Len(chain[n])}
  \cup (IF n \in BlockBuilders THEN {UnhashedBlock(chain[n])} ELSE {})
  \cup (IF n \in BlockBuilders /\ Len(chain[n]) >= 2
        THEN {TamperedBlock(last_block(chain[n]))} ELSE {})
  \cup (IF n \in BlockBuilders /\ Len(chain[n]) < MaxChain
        THEN {NegativeTransferBlock(chain[n])} ELSE {})

BroadcastBlock(n, block) ==
  LET after == Broadcast([chain |-> chain, pool |-> current_transactions],
                         peers[n], 1, block)
  IN /\ chain' = after.chain
     /\ current_transactions' = after.pool
     /\ \/ after.chain = chain
        \/ block \in MinedBlocks
        \/ Objects + Len(block.transactions) + 1 <= MaxObjects
     /\ last' = Call("broadcast_block", TRUE, "", Reception(chain, after.chain, peers[n]), <<>>)
     /\ UNCHANGED <<peers, heap>>

(***************************************************************************)
(* Node.mine: mine_block with the node's name, then broadcast_block.       *)
(***************************************************************************)
Mine(n, ts) ==
  LET block == MinedBlock(chain[n], current_transactions[n], difficulty[n], n, ts)
      mined == [chain |-> [chain EXCEPT ![n] = Append(@, block)],
                pool |-> [current_transactions EXCEPT ![n] = <<>>]]
      after == Broadcast(mined, peers[n], 1, block)
  IN /\ CanMine(n)
     /\ chain' = after.chain
     /\ current_transactions' = after.pool
     /\ last' = Call("mine", TRUE, "", "", <<block>>)
     /\ UNCHANGED <<peers, heap>>

(***************************************************************************)
(* Blockchain.valid_chain and Blockchain.replace_chain, called directly.   *)
(***************************************************************************)
\* The candidate chains a caller passes: the empty list, the chains the
\* ledgers hold, a chain without its genesis block, the genesis block of
\* the called ledger before the mined blocks of another, and a chain whose
\* first block the caller built without a hash.
Candidates ==
  {<<>>}
  \cup {chain[m] : m \in Nodes}
  \cup {Tail(chain[m]) : m \in Nodes}
  \cup {<<chain[m][1]>> \o Tail(chain[k]) : m \in DirectCallers, k \in Nodes}
  \cup {UnhashedGenesis(chain[m]) : m \in Nodes}

ValidChain(n, candidate) ==
  LET v == valid_chain(chain[n], candidate)
  IN /\ chain' = [chain EXCEPT ![n] = v.chain]
     /\ last' = Call("valid_chain", v.ret, "", "", <<>>)
     /\ UNCHANGED <<current_transactions, peers, heap>>

ReplaceChain(n, new_chain) ==
  LET r == replace_chain(chain[n], current_transactions[n], new_chain)
  IN /\ chain' = [chain EXCEPT ![n] = r.chain]
     /\ current_transactions' = [current_transactions EXCEPT ![n] = r.pool]
     /\ last' = Call("replace_chain", r.ret, "",
                     IF Len(new_chain) > Len(chain[n]) THEN "longer" ELSE "not longer", <<>>)
     /\ UNCHANGED <<peers, heap>>

(***************************************************************************)
(* Node.resolve_conflicts                                                  *)
(***************************************************************************)
\* A selection in which a later peer wins a tie in length.
RECURSIVE SelectCandidateLastTie(_, _, _, _)
SelectCandidateLastTie(self_chain, candidate, ps, k) ==
  IF k > Len(ps) THEN [candidate |-> candidate, chain |-> self_chain]
  ELSE LET theirs == chain[ps[k]]
       IN IF Len(theirs) >= Len(candidate) /\ Len(theirs) > Len(self_chain)
          THEN LET v == valid_chain(self_chain, theirs)
               IN SelectCandidateLastTie(v.chain, IF v.ret THEN theirs ELSE candidate,
                                         ps, k + 1)
          ELSE SelectCandidateLastTie(self_chain, candidate, ps, k + 1)

\* A selection that asks the first peer only.
SelectCandidateFirstPeer(self_chain, candidate, ps, k) ==
  IF Len(ps) = 0 THEN [candidate |-> candidate, chain |-> self_chain]
  ELSE LET theirs == chain[ps[1]]
       IN IF Len(theirs) > Len(candidate)
          THEN LET v == valid_chain(self_chain, theirs)
               IN [candidate |-> IF v.ret THEN theirs ELSE candidate, chain |-> v.chain]
          ELSE [candidate |-> candidate, chain |-> self_chain]

\* The loop of resolve_conflicts over self.peers[k..]: candidate is the
\* chain selected so far, self_chain the node's own chain (valid_chain
\* runs on the node's own ledger).
RECURSIVE SelectCandidate(_, _, _, _)
SelectCandidate(self_chain, candidate, ps, k) ==
  IF k > Len(ps) THEN [candidate |-> candidate, chain |-> self_chain]
  ELSE LET theirs == chain[ps[k]]
       IN IF Len(theirs) > Len(candidate)
          THEN LET v == valid_chain(self_chain, theirs)
               IN SelectCandidate(v.chain, IF v.ret THEN theirs ELSE candidate, ps, k + 1)
          ELSE SelectCandidate(self_chain, candidate, ps, k + 1)

ResolveConflicts(n) ==
  LET sel == SelectCandidate(chain[n], chain[n], peers[n], 1)
      r == replace_chain(sel.chain, current_transactions[n], sel.candidate)
  IN /\ chain' = [chain EXCEPT ![n] = r.chain]
     /\ current_transactions' = [current_transactions EXCEPT ![n] = r.pool]
     /\ last' = Call("resolve_conflicts", r.ret, "", "", <<>>)
     /\ UNCHANGED <<peers, heap>>

(***************************************************************************)
(* The system: any caller may invoke any operation of any node.            *)
(***************************************************************************)
Next ==
  \/ \E pair \in ConnectInputs : Connect(pair[1], pair[2])
  \/ \E n \in Clients, in \in TxInputs : AddTransaction(n, in[1], in[2], in[3])
  \/ \E n \in Nodes, ts \in Ticks : MineBlock(n, n, ts)
  \/ \E n \in Nodes : \E block \in BroadcastInputs(n) : BroadcastBlock(n, block)
  \/ \E n \in Nodes, ts \in Ticks : Mine(n, ts)
  \/ \E n \in DirectCallers, c \in Candidates : ValidChain(n, c)
  \/ \E n \in DirectCallers, c \in Candidates : ReplaceChain(n, c)
  \/ \E n \in Nodes : ResolveConflicts(n)

Spec == Init /\ [][Next]_vars

(***************************************************************************)
(* The system that settles: callers invoke any operation until some point, *)
(* reached with a connected peer graph, after which the nodes only call    *)
(* resolve_conflicts, each of them again and again (the closing loop of    *)
(* the demo).  The calls after that point carry the note "quiet" and the   *)
(* length of the longest chain held at that point.                         *)
(***************************************************************************)
Quiet == last.note = "quiet"

\* The nodes reachable from the nodes of S along peer lists.
RECURSIVE Closure(_)
Closure(S) ==
  LET T == S \cup {q \in Nodes : \E p \in S : InSeq(q, peers[p])}
  IN IF T = S THEN S ELSE Closure(T)

GraphConnected == \A n \in Nodes : Closure({n}) = Nodes

\* len of the longest chain held by any node.
LongestLength == CHOOSE k \in 1..(MaxChain + 1) :
  /\ \E n \in Nodes : Len(chain[n]) = k
  /\ \A n \in Nodes : Len(chain[n]) <= k

\* The point from which no node mines or admits transactions.
Stop ==
  /\ ~Quiet
  /\ GraphConnected
  /\ last' = Call("stop", TRUE, "", "quiet", <<[longest |-> LongestLength]>>)
  /\ UNCHANGED <<chain, current_transactions, peers, heap>>

\* Node.resolve_conflicts after that point: sel is the outcome of the loop
\* over the peers, r that of replace_chain.
QuietResolve(n) ==
  /\ Quiet
  /\ \E sel \in {SelectCandidate(chain[n], chain[n], peers[n], 1)} :
       \E r \in {replace_chain(sel.chain, current_transactions[n], sel.candidate)} :
          /\ chain' = [chain EXCEPT ![n] = r.chain]
          /\ current_transactions' = [current_transactions EXCEPT ![n] = r.pool]
          /\ last' = Call("resolve_conflicts", r.ret, "", "quiet", last.ret)
  /\ UNCHANGED <<peers, heap>>

SettleNext ==
  \/ ~Quiet /\ Next
  \/ Stop
  \/ \E n \in Nodes : QuietResolve(n)

SpecSettle ==
  /\ Init
  /\ [][SettleNext]_vars
  /\ \A n \in Nodes : WF_vars(QuietResolve(n))

(***************************************************************************)
(* The system with object identity: the same operations, called by the     *)
(* nodes on the lists and blocks of each other, where list.append changes  *)
(* the list in place (so every ledger holding that list sees the block)    *)
(* and an assignment to self.chain rebinds the ledger of the caller only.  *)
(* heap.list[n] is the identity of the list in chain of node n, and        *)
(* heap.obj[n][i] that of its i-th Block.                                  *)
(***************************************************************************)
\* chain.append(block) on the list held by node n, block being object o.
HeapAppend(st, n, block, o) ==
  LET same == {m \in Nodes : st.heap.list[m] = st.heap.list[n]}
  IN [st EXCEPT
        !.chain = [m \in Nodes |-> IF m \in same THEN Append(st.chain[m], block)
                                   ELSE st.chain[m]],
        !.heap.obj = [m \in Nodes |-> IF m \in same THEN Append(st.heap.obj[m], o)
                                      ELSE st.heap.obj[m]]]

HeapState == [chain |-> chain, pool |-> current_transactions, heap |-> heap]

\* mine_block of node n: the block it appends to its list.
HeapMined(st, n, ts) ==
  LET block == MinedBlock(st.chain[n], st.pool[n], difficulty[n], n, ts)
      o == Ref(n, Len(st.chain[n]) + 1, Len(st.chain[n]) + 1)
  IN [HeapAppend(st, n, block, o) EXCEPT !.pool[n] = <<>>]

\* The loop of broadcast_block over self.peers[k..], block being object o.
RECURSIVE HeapBroadcast(_, _, _, _, _)
HeapBroadcast(st, ps, k, block, o) ==
  IF k > Len(ps) THEN st
  ELSE LET p == ps[k]
           accepted == valid_block(st.chain[p], block, <<last_block(st.chain[p])>>)
       IN HeapBroadcast(IF accepted
                        THEN [HeapAppend(st, p, block, o) EXCEPT !.pool[p] = <<>>]
                        ELSE st,
                        ps, k + 1, block, o)

\* A replace_chain that stores the candidate list itself.
AdoptedListShared(hp, n, src, L) ==
  [list |-> hp.list[src], obj |-> hp.obj[src]]

\* What replace_chain of node n stores in self.chain when it adopts the
\* list of node src, of length L: a new list of new Blocks.
AdoptedList(hp, n, src, L) ==
  [list |-> Ref(n, L, 0), obj |-> [i \in 1..L |-> Ref(n, L, i)]]

\* replace_chain of node n called with the list held by node src.
HeapReplaced(st, n, src) ==
  LET r == replace_chain(st.chain[n], st.pool[n], st.chain[src])
      a == AdoptedList(st.heap, n, src, Len(st.chain[src]))
  IN IF r.ret
     THEN [ret |-> TRUE,
           st |-> [st EXCEPT !.chain[n] = r.chain, !.pool[n] = r.pool,
                             !.heap.list[n] = a.list, !.heap.obj[n] = a.obj]]
     ELSE [ret |-> FALSE, st |-> st]

\* The loop of resolve_conflicts of node n over self.peers[k..]: src is the
\* node whose list is the candidate so far.
RECURSIVE SelectSource(_, _, _, _)
SelectSource(n, src, ps, k) ==
  IF k > Len(ps) THEN src
  ELSE IF /\ Len(chain[ps[k]]) > Len(chain[src])
          /\ valid_chain(chain[n], chain[ps[k]]).ret
       THEN SelectSource(n, ps[k], ps, k + 1)
       ELSE SelectSource(n, src, ps, k + 1)

HeapStep(st) ==
  /\ chain' = st.chain
  /\ current_transactions' = st.pool
  /\ heap' = st.heap

HeapMineBlock(n, ts) ==
  /\ CanMine(n)
  /\ \E st \in {HeapMined(HeapState, n, ts)} :
        /\ HeapStep(st)
        /\ last' = Call("mine_block", TRUE, "", n, <<last_block(st.chain[n])>>)
  /\ UNCHANGED peers

HeapBroadcastBlock(n, k) ==
  /\ \E st \in {HeapBroadcast(HeapState, peers[n], 1, chain[n][k], heap.obj[n][k])} :
        /\ HeapStep(st)
        /\ last' = Call("broadcast_block", TRUE, "", n, <<chain[n][k]>>)
  /\ UNCHANGED peers

HeapMine(n, ts) ==
  /\ CanMine(n)
  /\ \E mined \in {HeapMined(HeapState, n, ts)} :
        \E st \in {HeapBroadcast(mined, peers[n], 1, last_block(mined.chain[n]),
                                 mined.heap.obj[n][Len(mined.heap.obj[n])])} :
           /\ HeapStep(st)
           /\ last' = Call("mine", TRUE, "", n, <<last_block(mined.chain[n])>>)
  /\ UNCHANGED peers

HeapReplaceChain(n, src) ==
  /\ \E r \in {HeapReplaced(HeapState, n, src)} :
        /\ HeapStep(r.st)
        /\ last' = Call("replace_chain", r.ret, "", n, <<>>)
  /\ UNCHANGED peers

HeapResolveConflicts(n) ==
  /\ \E r \in {HeapReplaced(HeapState, n, SelectSource(n, n, peers[n], 1))} :
        /\ HeapStep(r.st)
        /\ last' = Call("resolve_conflicts", r.ret, "", n, <<>>)
  /\ UNCHANGED peers

HeapNext ==
  \/ \E pair \in ConnectInputs : Connect(pair[1], pair[2])
  \/ \E n \in Nodes, ts \in Ticks : HeapMineBlock(n, ts)
  \/ \E n \in Nodes : \E k \in 2..Len(chain[n]) : HeapBroadcastBlock(n, k)
  \/ \E n \in Nodes, ts \in Ticks : HeapMine(n, ts)
  \/ \E n \in DirectCallers, src \in Nodes : HeapReplaceChain(n, src)
  \/ \E n \in Nodes : HeapResolveConflicts(n)

SpecHeap == Init /\ [][HeapNext]_vars

(***************************************************************************)
(* Properties.                                                             *)
(***************************************************************************)
\* A chain is non-empty, its blocks are indexed 0, 1, 2, ... by position,
\* and every block after the first carries the hash of its predecessor.
ChainWellFormed(c) ==
  /\ Len(c) >= 1
  /\ \A i \in 1..Len(c) : c[i].index = i - 1
  /\ \A i \in 2..Len(c) : c[i].previous_hash = c[i - 1].hash

\* C1: after any sequence of operations every node's chain is non-empty,
\* chain[i].index = i at every position, and chain[i].previous_hash =
\* chain[i-1].hash for every i > 0.
C1_ChainInvariant == \A n \in Nodes : ChainWellFormed(chain[n])

\* The balance of an address as the sum of its credits minus the sum of
\* its debits, over the chain and then the pending pool.
RECURSIVE NetOf(_, _)
NetOf(txs, a) ==
  IF Len(txs) = 0 THEN 0
  ELSE (IF Head(txs).recipient = a THEN Head(txs).amount ELSE 0)
       - (IF Head(txs).sender = a /\ a # "coinbase" THEN Head(txs).amount ELSE 0)
       + NetOf(Tail(txs), a)

RECURSIVE NetOfChain(_, _)
NetOfChain(c, a) ==
  IF Len(c) = 0 THEN 0 ELSE NetOf(Head(c).transactions, a) + NetOfChain(Tail(c), a)

BalanceOf(n, a) == NetOfChain(chain[n], a) + NetOf(current_transactions[n], a)

\* C2: on every node, get_balance of every address (chain replay, then
\* pending pool replay) is never negative.
C2_BalancesNonNegative ==
  \A n \in Nodes : \A a \in Addresses :
     get_balance(chain[n], current_transactions[n], a) >= 0

\* Every ledger but that of node n is left as it was.
OthersUnchanged(n) ==
  \A m \in Nodes \ {n} :
     chain'[m] = chain[m] /\ current_transactions'[m] = current_transactions[m]

\* What a step of replace_chain must satisfy, for every call that makes the step.
C3_ReplaceStep ==
  last'.op = "replace_chain" =>
    \A n \in DirectCallers : \A c \in Candidates :
       ReplaceChain(n, c) =>
         LET accept == Len(c) > Len(chain[n]) /\ valid_chain(chain[n], c).ret
         IN /\ last'.ok <=> accept
            /\ accept => chain'[n] = c /\ current_transactions'[n] = <<>>
            /\ ~accept => /\ chain'[n] = chain[n]
                          /\ current_transactions'[n] = current_transactions[n]
            /\ OthersUnchanged(n)

\* C3: replace_chain returns true only for a candidate that is strictly
\* longer than the ledger's chain and passes valid_chain, and then the
\* ledger holds the candidate and an empty pool; for any other candidate
\* it returns false and leaves the chain and the pending pool as they were.
C3_ReplaceChain == [][C3_ReplaceStep]_vars

\* C3 witness: replace_chain has refused a candidate that is strictly
\* longer than the ledger's chain, while the ledger holds a pending pool.
C3_Witness ==
  /\ last.op = "replace_chain" /\ ~last.ok /\ last.note = "longer"
  /\ \E n \in DirectCallers : Len(current_transactions[n]) > 0

\* What a step of add_transaction must satisfy, for every call that makes the step.
C4_AddStep ==
  last'.op = "add_transaction" =>
    \A n \in Clients : \A in \in TxInputs :
       AddTransaction(n, in[1], in[2], in[3]) =>
         LET sender == in[1]
             amount == in[3]
             invalid == amount <= 0
             reserved == sender = "coinbase"
             short == BalanceOf(n, sender) < amount
         IN /\ last'.ok <=> ~(invalid \/ reserved \/ short)
            /\ last'.err = "InvalidAmount" => invalid
            /\ last'.err = "ReservedSender" => reserved
            /\ last'.err = "InsufficientBalance" => short
            /\ ~last'.ok => last'.err \in {"InvalidAmount", "ReservedSender", "InsufficientBalance"}
            /\ ~last'.ok => current_transactions' = current_transactions
            /\ last'.ok => current_transactions' =
                 [current_transactions EXCEPT
                    ![n] = Append(@, [sender |-> in[1], recipient |-> in[2], amount |-> in[3]])]
            /\ chain' = chain

\* C4: add_transaction fails exactly when the amount is not positive, the
\* sender is "coinbase", or the sender's balance over the chain and the
\* pending pool is below the amount, with the matching error; a failure
\* leaves the pool and the chain as they were, a success appends the one
\* transaction at the end of the pool and leaves the chain as it was.
C4_AddTransaction == [][C4_AddStep]_vars

\* C4 witness: add_transaction has raised InsufficientBalance on a ledger
\* whose chain alone would cover the amount: the pending pool was counted.
C4_Witness ==
  /\ last.op = "add_transaction" /\ last.err = "InsufficientBalance"
  /\ \E n \in Clients :
       /\ NetOfChain(chain[n], "P1") >= 30
       /\ BalanceOf(n, "P1") < 30

\* What a step of mine_block must satisfy, for every call that makes the step.
C5_MineStep ==
  last'.op = "mine_block" =>
    \A n \in Nodes : \A ts \in Ticks :
       MineBlock(n, n, ts) =>
         LET block == last'.ret[1]
             tip == chain[n][Len(chain[n])]
         IN /\ Len(chain'[n]) = Len(chain[n]) + 1
            /\ SubSeq(chain'[n], 1, Len(chain[n])) = chain[n]
            /\ chain'[n][Len(chain'[n])] = block
            /\ block.index = tip.index + 1
            /\ block.previous_hash = tip.hash
            /\ block.difficulty = difficulty[n]
            /\ block.transactions =
                 <<[sender |-> "coinbase", recipient |-> n, amount |-> block_reward]>>
                 \o current_transactions[n]
            /\ current_transactions'[n] = <<>>
            /\ OthersUnchanged(n)

\* C5: mine_block appends exactly one block: on the previous tip (index and
\* previous_hash), of the ledger's difficulty, holding the coinbase
\* transaction to the miner followed by the pending pool in its order; the
\* pool is then empty and the returned block is the new tip.
C5_MineBlock == [][C5_MineStep]_vars

\* C5 witness: mine_block has returned a block holding the coinbase
\* transaction and a pool of two different transfers.
C5_Witness ==
  /\ last.op = "mine_block"
  /\ Len(last.ret[1].transactions) = 3
  /\ last.ret[1].transactions[2] # last.ret[1].transactions[3]

\* The number of zero digits a digest starts with.
LeadingZeros(h) ==
  Cardinality({k \in 1..Len(h.hex) : \A j \in 1..k : h.hex[j] = 0})

HasProof(block) ==
  /\ block.hash # None
  /\ LeadingZeros(block.hash) >= block.difficulty

\* C6: a block returned by mine_block (or mine) has a hash starting with at
\* least difficulty zero digits, and every non-genesis block on every
\* node's chain has a hash starting with at least as many zero digits as
\* its own difficulty field.
C6_ProofOfWork ==
  /\ last.op \in {"mine_block", "mine"} => HasProof(last.ret[1])
  /\ \A n \in Nodes : \A i \in 1..Len(chain[n]) :
        chain[n][i].index # 0 => HasProof(chain[n][i])

\* C6 witness: a node has adopted, by resolve_conflicts, a block of
\* difficulty 1 that another node mined with a nonce above 0.
C6_Witness ==
  /\ last.op = "resolve_conflicts" /\ last.ok
  /\ \E n \in Nodes : \E i \in 2..Len(chain[n]) :
        /\ chain[n][i].difficulty >= 1
        /\ chain[n][i].nonce > 0
        /\ chain[n][i].transactions[1].recipient # n

\* Every sender of the block can pay, in order, out of the balances
\* accumulated over prefix and over the block's earlier transactions.
Affordable(prefix, block) ==
  \A k \in 1..Len(block.transactions) :
     LET tx == block.transactions[k]
     IN tx.sender # "coinbase" =>
          NetOfChain(prefix, tx.sender)
          + NetOf(SubSeq(block.transactions, 1, k - 1), tx.sender) >= tx.amount

\* candidate[i] is valid against candidate[i-1] over the prefix candidate[1..i-1].
ValidAt(candidate, i) ==
  /\ LinkageOk(candidate[i], IF i > 1 THEN <<candidate[i - 1]>> ELSE <<>>)
  /\ ProofOk(candidate[i])
  /\ Affordable(SubSeq(candidate, 1, i - 1), candidate[i])

\* C7: on every ledger, valid_chain of a candidate is true iff the candidate
\* is non-empty and each of its blocks is valid against its predecessor
\* with the balances of the candidate's own prefix; the verdict is the same
\* on every ledger.
C7_ValidChain ==
  \A n \in Nodes : \A c \in Candidates :
     valid_chain(chain[n], c).ret
       <=> (Len(c) > 0 /\ \A i \in 1..Len(c) : ValidAt(c, i))

\* C7 witness: valid_chain has accepted a chain of three blocks whose third
\* block spends what only its second block pays, while another ledger
\* starts from a different genesis block.
C7_Witness ==
  /\ last.op = "valid_chain" /\ last.ok
  /\ \E c \in Candidates : \E n \in Nodes :
        /\ Len(c) = 3
        /\ valid_chain(chain[n], c).ret
        /\ chain[n][1] # c[1]
        /\ \E k \in 1..Len(c[3].transactions) :
              /\ c[3].transactions[k].sender # "coinbase"
              /\ NetOf(c[1].transactions, c[3].transactions[k].sender) = 0

\* What a step of broadcast_block must satisfy, for every call that makes the step.
C8_BroadcastStep ==
  last'.op = "broadcast_block" =>
    \A n \in Nodes : \A block \in BroadcastInputs(n) :
       BroadcastBlock(n, block) =>
         \A p \in Nodes :
            IF /\ InSeq(p, peers[n])
               /\ valid_block(chain[p], block, <<chain[p][Len(chain[p])]>>)
            THEN /\ chain'[p] = Append(chain[p], block)
                 /\ current_transactions'[p] = <<>>
            ELSE /\ chain'[p] = chain[p]
                 /\ current_transactions'[p] = current_transactions[p]

\* C8: broadcast_block by node n makes each peer whose ledger finds the
\* block valid on its tip append exactly that block and empty its pool, and
\* leaves every other ledger, n's own included, as it was.
C8_Broadcast == [][C8_BroadcastStep]_vars

\* C8 witness: a broadcast has been accepted by one peer and rejected by
\* another.
C8_Witness == last.op = "broadcast_block" /\ last.note = "some"

\* The positions in n's peer list of the peers holding a chain strictly
\* longer than n's that n's valid_chain accepts.
LongerValid(n) ==
  {k \in 1..Len(peers[n]) :
     /\ Len(chain[peers[n][k]]) > Len(chain[n])
     /\ valid_chain(chain[n], chain[peers[n][k]]).ret}

\* The first position, in peer-list order, of a longest chain among them.
FirstLongest(n) ==
  CHOOSE k \in LongerValid(n) :
     /\ \A j \in LongerValid(n) : Len(chain[peers[n][j]]) <= Len(chain[peers[n][k]])
     /\ \A j \in LongerValid(n) :
          Len(chain[peers[n][j]]) = Len(chain[peers[n][k]]) => k <= j

\* What a step of resolve_conflicts must satisfy, for every call that makes the step.
C9_ResolveStep ==
  last'.op = "resolve_conflicts" =>
    \A n \in Nodes :
       ResolveConflicts(n) =>
         /\ last'.ok <=> LongerValid(n) # {}
         /\ IF LongerValid(n) # {}
            THEN /\ chain'[n] = chain[peers[n][FirstLongest(n)]]
                 /\ current_transactions'[n] = <<>>
            ELSE /\ chain'[n] = chain[n]
                 /\ current_transactions'[n] = current_transactions[n]
         /\ OthersUnchanged(n)

\* C9: resolve_conflicts on n returns true iff a peer holds a strictly
\* longer valid chain; n then holds the chain of the first peer, in
\* peer-list order, with a longest such chain, and an empty pool; otherwise
\* n's ledger is as it was.  No other ledger changes.
C9_ResolveConflicts == [][C9_ResolveStep]_vars

\* C9 witness: resolve_conflicts has adopted the chain of the first of two
\* peers that hold different chains of the same length.
C9_Witness ==
  /\ last.op = "resolve_conflicts" /\ last.ok
  /\ \E n \in Nodes :
        /\ Len(peers[n]) = 2
        /\ chain[n] = chain[peers[n][1]]
        /\ Len(chain[peers[n][2]]) = Len(chain[n])
        /\ chain[peers[n][2]] # chain[n]

\* The peer relation is symmetric, irreflexive and free of duplicates.
PeersWellFormed(ps) ==
  /\ \A a \in Nodes : \A b \in Nodes : InSeq(b, ps[a]) <=> InSeq(a, ps[b])
  /\ \A a \in Nodes : ~InSeq(a, ps[a])
  /\ \A a \in Nodes : \A i \in 1..Len(ps[a]) : \A j \in 1..Len(ps[a]) :
        ps[a][i] = ps[a][j] => i = j

\* connect(a, a) changes nothing; connect(a, b) leaves a and b peers of each
\* other, changes nothing when they already are, and changes only the peer
\* lists of a and b when they are not.
C10_ConnectStep ==
  last'.op = "connect" =>
    \A pair \in ConnectInputs :
       Connect(pair[1], pair[2]) =>
         LET a == pair[1]
             b == pair[2]
         IN /\ a = b => peers' = peers
            /\ (InSeq(b, peers[a]) /\ InSeq(a, peers[b])) => peers' = peers
            /\ a # b => InSeq(b, peers'[a]) /\ InSeq(a, peers'[b])
            /\ \A m \in Nodes \ {a, b} : peers'[m] = peers[m]
            /\ PeersWellFormed(peers')

\* C10: after any sequence of connect calls the peer relation is symmetric,
\* irreflexive and duplicate-free, and a connect of a node to itself or of
\* two nodes that are peers already, in either direction, changes nothing.
C10_Connect == []PeersWellFormed(peers) /\ [][C10_ConnectStep]_vars

\* C10 witness: the last connect was a repeated one, between the hub and a
\* peer it already had two of.
C10_Witness ==
  /\ last.op = "connect"
  /\ Len(peers["P1"]) = 2
  /\ Len(peers["P2"]) = 1 /\ Len(peers["P3"]) = 1

\* Nodes a and b are peers in a fork: chains of the same length that agree
\* up to the block before the tip and end in different blocks.
Forked(a, b) ==
  /\ InSeq(b, peers[a])
  /\ Len(chain[a]) = Len(chain[b])
  /\ Len(chain[a]) >= 2
  /\ SubSeq(chain[a], 1, Len(chain[a]) - 1) = SubSeq(chain[b], 1, Len(chain[b]) - 1)
  /\ last_block(chain[a]) # last_block(chain[b])

\* Peer b of a has extended its side of a fork with a by one block.
ForkExtended(a, b) ==
  /\ InSeq(b, peers[a])
  /\ Len(chain[b]) = Len(chain[a]) + 1
  /\ Len(chain[a]) >= 2
  /\ SubSeq(chain[a], 1, Len(chain[a]) - 1) = SubSeq(chain[b], 1, Len(chain[a]) - 1)
  /\ last_block(chain[a]) # chain[b][Len(chain[a])]

\* What the steps of broadcast_block and resolve_conflicts must satisfy on
\* a fork, for every call that makes the step.
C11_ForkStep ==
  /\ last'.op = "broadcast_block" =>
       \A n \in Nodes : \A block \in BroadcastInputs(n) :
          (block = last_block(chain[n]) /\ BroadcastBlock(n, block)) =>
            \A p \in Nodes :
               Forked(n, p) =>
                 /\ chain'[n] = chain[n]
                 /\ chain'[p] = chain[p]
                 /\ current_transactions'[p] = current_transactions[p]
  /\ last'.op = "resolve_conflicts" =>
       \A n \in Nodes :
          ResolveConflicts(n) =>
            /\ ( /\ \E p \in Nodes : Forked(n, p)
                 /\ \A p \in Nodes :
                       InSeq(p, peers[n]) => Len(chain[p]) <= Len(chain[n]) )
               => ~last'.ok /\ chain' = chain
            /\ \A p \in Nodes :
                 ( /\ ForkExtended(n, p)
                   /\ \A q \in Nodes \ {p} :
                         InSeq(q, peers[n]) => Len(chain[q]) <= Len(chain[n]) )
                 => last'.ok /\ chain'[n] = chain[p]

\* C11: when two connected nodes have each mined a block on the same tip,
\* the broadcast of either block is rejected by the other node, whose chain
\* and pool stay as they were; while the chains are of equal length
\* resolve_conflicts returns false; once one node has extended its chain by
\* a further block, resolve_conflicts on the other adopts that chain.
C11_Fork == [][C11_ForkStep]_vars

\* C11 witness: the tip of a forked node has been broadcast and no peer
\* took it, while its peer in the fork holds a pending pool.
C11_Witness ==
  /\ last.op = "broadcast_block" /\ last.note = "none"
  /\ \E a \in Nodes : \E b \in Nodes :
        Forked(a, b) /\ Len(current_transactions[b]) > 0

\* Node n's balances after the step are those before it, plus the reward
\* for the miner.
BalancesKept(n, miner) ==
  \A a \in Addresses :
     get_balance(chain'[n], current_transactions'[n], a)
       = get_balance(chain[n], current_transactions[n], a)
         + (IF a = miner THEN block_reward ELSE 0)

\* The scenario on a fresh ledger: the faucet sends 200 to P1, P2 mines.
FundingScenario ==
  LET fresh == <<GenesisBlock(1, 1)>>
      pool == <<Transaction("faucet", "P1", 200)>>
      block == MinedBlock(fresh, pool, 1, "P2", MaxTime)
      mined == Append(fresh, block)
  IN /\ get_balance(fresh, <<>>, "faucet") = faucet_allocation
     /\ AddError(fresh, <<>>, "faucet", 200) = ""
     /\ get_balance(mined, <<>>, "P1") = 200
     /\ get_balance(mined, <<>>, "faucet") = faucet_allocation - 200
     /\ get_balance(mined, <<>>, "P2") = block_reward

\* What a step of mine_block or mine must satisfy on the miner's ledger.
C12_MineStep ==
  /\ last'.op = "mine_block" =>
       \A n \in Nodes : \A ts \in Ticks : MineBlock(n, n, ts) => BalancesKept(n, n)
  /\ last'.op = "mine" =>
       \A n \in Nodes : \A ts \in Ticks : Mine(n, ts) => BalancesKept(n, n)

\* C12: mine_block changes no balance derived on the miner's ledger but
\* the miner's, which grows by block_reward; on a fresh ledger on which
\* the faucet sent 200 to P1 and P2 mined, P1 holds 200, the faucet 9,800
\* and P2 block_reward.
C12_MiningKeepsBalances == [][C12_MineStep]_vars /\ []FundingScenario

\* C12 witness: P2 has mined a block that also holds a transfer to P2.
C12_Witness ==
  /\ last.op = "mine_block"
  /\ last.ret[1].transactions[1].recipient = "P2"
  /\ \E k \in 2..Len(last.ret[1].transactions) :
        last.ret[1].transactions[k].recipient = "P2"

\* What a step of mine must satisfy when the miner and a peer constructed
\* with the same difficulty both hold only their genesis block.
C13_MineStep ==
  last'.op = "mine" =>
    \A n \in Nodes : \A ts \in Ticks :
       Mine(n, ts) =>
         \A p \in Nodes :
            ( /\ InSeq(p, peers[n])
              /\ difficulty[p] = difficulty[n]
              /\ Len(chain[n]) = 1 /\ Len(chain[p]) = 1 )
            => /\ chain'[p] = Append(chain[p], last_block(chain'[n]))
               /\ \A a \in Addresses :
                     get_balance(chain'[p], current_transactions'[p], a)
                       = get_balance(chain'[n], current_transactions'[n], a)

\* C13: all nodes start from the same genesis block, so the block a freshly
\* constructed node mines on its genesis block and broadcasts by mine() is
\* accepted by every freshly constructed peer, whose balances then agree
\* with the miner's.
C13_FreshPeersAccept == [][C13_MineStep]_vars

\* Every chain has the length of the longest chain held when the nodes
\* stopped mining.
Settled == \A n \in Nodes : Len(chain[n]) = last.ret[1].longest

\* C14: in a connected peer graph, once no node mines or admits
\* transactions and every node keeps calling resolve_conflicts, every chain
\* eventually has, and keeps, the length of the longest chain held when
\* mining stopped, and from then on no resolve_conflicts changes a chain.
C14_EventualConsistency ==
  /\ Quiet ~> [](Quiet /\ Settled)
  /\ [][(Quiet /\ Settled) => chain' = chain]_vars

\* C14 witness: resolve_conflicts has brought the last node to the longest
\* length, three blocks, and two nodes still hold different chains.
C14_Witness ==
  /\ Quiet /\ Settled
  /\ last.op = "resolve_conflicts" /\ last.ok
  /\ last.ret[1].longest = 3
  /\ \E n \in Nodes : \E m \in Nodes : chain[n] # chain[m]

\* C15: validation re-verifies the content hash, so no chain ever holds a
\* non-genesis block whose stored hash differs from the hash computed over
\* its index, timestamp, transactions, previous_hash, nonce and difficulty.
C15_HashVerified ==
  \A n \in Nodes : \A i \in 1..Len(chain[n]) :
     chain[n][i].index # 0 => chain[n][i].hash = compute_hash(chain[n][i])

\* What a step of valid_chain must satisfy, for every call that makes the step.
C16_ValidChainStep ==
  last'.op = "valid_chain" =>
    \A n \in DirectCallers : \A c \in Candidates :
       ValidChain(n, c) =>
         /\ chain' = chain
         /\ current_transactions' = current_transactions
         /\ peers' = peers

\* C16: valid_chain leaves the validating ledger's chain and pending pool
\* as they were, whether it returns true or false, at whatever position of
\* the candidate it returns.
C16_ValidChainNoEffect == [][C16_ValidChainStep]_vars

\* C16 witness: valid_chain has returned false on a ledger that holds a
\* pending pool and mined blocks, where a candidate has a valid first block
\* and an invalid later one.
C16_Witness ==
  /\ last.op = "valid_chain" /\ ~last.ok
  /\ \E n \in DirectCallers :
       /\ Len(current_transactions[n]) > 0
       /\ Len(chain[n]) >= 2
       /\ \E c \in Candidates :
            Len(c) >= 2 /\ ValidAt(c, 1) /\ ~valid_chain(chain[n], c).ret


\* The Block objects of the chain of node n.
ObjectsOf(hp, n) == {hp.obj[n][i] : i \in 1..Len(hp.obj[n])}

\* Node n holds a list and blocks that no other node holds.
Unshared(hp, n) ==
  \A p \in Nodes \ {n} :
     /\ hp.list[p] # hp.list[n]
     /\ ObjectsOf(hp, p) \cap ObjectsOf(hp, n) = {}

\* The peer n of the caller appended the block to the chain it had.
Received(n, caller, block) ==
  /\ InSeq(n, peers[caller])
  /\ valid_block(chain[n], block, <<last_block(chain[n])>>)
  /\ chain'[n] = Append(chain[n], block)

C17_AdoptStep ==
  last'.ok =>
    \A n \in Nodes :
       (HeapResolveConflicts(n) \/ \E src \in Nodes : HeapReplaceChain(n, src))
         => Unshared(heap', n)

C17_SourceStep ==
  /\ last'.op = "mine_block" =>
       \A p \in Nodes, ts \in Ticks :
          HeapMineBlock(p, ts) => \A n \in Nodes \ {p} : chain'[n] = chain[n]
  /\ last'.op = "mine" =>
       \A p \in Nodes, ts \in Ticks :
          HeapMine(p, ts) =>
            \A n \in Nodes \ {p} :
               chain'[n] = chain[n] \/ Received(n, p, last'.ret[1])
  /\ last'.op = "broadcast_block" =>
       \A p \in Nodes :
          \A k \in 2..Len(chain[p]) :
             HeapBroadcastBlock(p, k) =>
               \A n \in Nodes :
                  chain'[n] = chain[n] \/ Received(n, p, chain[p][k])

\* C17: a ledger that adopts a chain by replace_chain (called directly or by
\* resolve_conflicts) holds afterwards a list and blocks that no other node
\* holds; no two ledgers ever hold the same list; and a node that mines or
\* broadcasts changes no chain but its own and those of the peers that
\* accept the block themselves.
C17_NoAliasing ==
  /\ [](\A n, p \in Nodes : n # p => heap.list[n] # heap.list[p])
  /\ [][C17_AdoptStep /\ C17_SourceStep]_vars

\* A node adopted the chain of a peer, and the peer has mined a further
\* block since.
C17_Witness ==
  /\ last.op = "mine_block"
  /\ \E n, p \in Nodes :
       /\ n # p
       /\ last.note = p
       /\ heap.list[n].gen >= 2
       /\ Len(chain[p]) = Len(chain[n]) + 1
       /\ \A i \in 1..Len(chain[n]) : chain[p][i] = chain[n][i]


\* The pending pool of node n can be spent in order on top of its chain.
PoolSpendable(n) ==
  Affordable(chain[n], [transactions |-> current_transactions[n]])

\* The block the step mined passes valid_block of the miner n on the chain
\* and tip n had before mining.
MinedValid(n) ==
  valid_block(chain[n], last'.ret[1], <<last_block(chain[n])>>)

\* Every peer of n, other than n, whose chain was that of n has appended
\* the block the step mined.
SameChainPeersAccept(n) ==
  \A k \in 1..Len(peers[n]) :
     LET p == peers[n][k]
     IN (p # n /\ chain[p] = chain[n]) => chain'[p] = Append(chain[p], last'.ret[1])

C18_MineStep ==
  /\ last'.op = "mine_block" =>
       \A n \in Nodes, ts \in Ticks : MineBlock(n, n, ts) => MinedValid(n)
  /\ last'.op = "mine" =>
       \A n \in Nodes, ts \in Ticks :
          Mine(n, ts) => MinedValid(n) /\ SameChainPeersAccept(n)

\* C18: on every node the pending pool can always be spent in order on top
\* of the chain; the block mine_block produces passes valid_block against
\* the tip and chain from before mining; and every peer whose chain is the
\* miner's chain from before mining appends the block mine broadcasts.
C18_MinedBlockValid ==
  /\ [](\A n \in Nodes : PoolSpendable(n))
  /\ [][C18_MineStep]_vars

\* C18 witness: a node has mined a block with a transfer from its pool, and
\* a peer that held the same chain has appended it.
C18_Witness ==
  /\ last.op = "mine"
  /\ Len(last.ret[1].transactions) >= 2
  /\ \E n, p \in Nodes :
       /\ n # p
       /\ InSeq(p, peers[n])
       /\ last.ret[1].transactions[1].recipient = n
       /\ chain[p] = chain[n]
       /\ last_block(chain[n]) = last.ret[1]


\* The sum of get_balance of node n over all addresses.
Supply(n) ==
  SumOver(Addresses,
          [a \in Addresses |-> get_balance(chain[n], current_transactions[n], a)])

\* C19: on every node the balances of all addresses sum to the faucet
\* allocation plus one block reward for each block after the genesis block.
C19_SupplyConserved ==
  \A n \in Nodes :
     Supply(n) = faucet_allocation + block_reward * (Len(chain[n]) - 1)


\* The chain of node n is as long after the step as before, or k longer.
Grows(n, k) == Len(chain'[n]) = Len(chain[n]) + k

C20_LengthStep ==
  /\ \A n \in Nodes : Len(chain'[n]) >= Len(chain[n])
  /\ last'.op = "mine_block" =>
       \A p \in Nodes, ts \in Ticks :
          MineBlock(p, p, ts) => Grows(p, 1) /\ \A n \in Nodes \ {p} : Grows(n, 0)
  /\ last'.op = "mine" =>
       \A p \in Nodes, ts \in Ticks :
          Mine(p, ts) =>
            Grows(p, 1) /\ \A n \in Nodes \ {p} : IF chain'[n] # chain[n]
                                                    THEN Grows(n, 1) ELSE Grows(n, 0)
  /\ last'.op = "broadcast_block" =>
       \A n \in Nodes : IF chain'[n] # chain[n] THEN Grows(n, 1) ELSE Grows(n, 0)
  /\ last'.op \in {"replace_chain", "resolve_conflicts"} =>
       \A n \in Nodes : chain'[n] = chain[n] \/ Len(chain'[n]) > Len(chain[n])
  /\ last'.op \in {"add_transaction", "connect", "valid_chain"} =>
       \A n \in Nodes : Grows(n, 0)

\* C20: no step of any operation shortens a chain: mine_block and an
\* accepted broadcast lengthen a chain by exactly one block, replace_chain
\* and resolve_conflicts leave a chain as it is or make it strictly longer,
\* and add_transaction, connect and valid_chain leave every length as it is.
C20_LengthNeverDecreases == [][C20_LengthStep]_vars

\* C20 witness: resolve_conflicts has made a node adopt the chain of
\* three blocks that a peer mined.
C20_Witness ==
  /\ last.op = "resolve_conflicts" /\ last.ok
  /\ \E n, p \in Nodes :
       /\ n # p
       /\ Len(chain[n]) = MaxChain
       /\ chain[n] = chain[p]
       /\ chain[n][2].transactions[1].recipient = p
       /\ chain[n][3].transactions[1].recipient = p

=============================================================================
